---- MODULE Spec2Model ----
(***************************************************************************)
(* A model of the DHT layout validation library of glusto-tests:           *)
(*   brickdir.py       get_hashrange, class BrickDir                       *)
(*   glusterfile.py    class GlusterFile (hash, layout, hashed bricks)     *)
(*   dht_test_utils.py run_layout_tests, run_hashed_bricks_test,           *)
(*                     validate_files_in_dir                               *)
(* layout.py and constants.py are imported by these files; class Layout    *)
(* and the TEST_/FILETYPE_ bit masks are modelled from the specification.  *)
(*                                                                         *)
(* Numbers.  A Python int in 0 .. 2^32 is kept as a pair <<hi, lo>> of     *)
(* 16-bit limbs (value = hi * 2^16 + lo), because TLC integers are 32-bit  *)
(* signed.  Strings are sequences of one-character strings.  Python None   *)
(* is the empty tuple.                                                     *)
(***************************************************************************)
EXTENDS Integers, Sequences, FiniteSets, TLC

None == <<>>

----------------------------------------------------------------------------
(* Limb arithmetic on <<hi, lo>> pairs *)

LimbBase == 256 * 256

Zero32 == <<0, 0>>
Max32 == <<LimbBase - 1, LimbBase - 1>>
Pow32 == <<LimbBase, 0>>

NumLt(a, b) == a[1] < b[1] \/ (a[1] = b[1] /\ a[2] < b[2])
NumLe(a, b) == a = b \/ NumLt(a, b)
NumAdd(a, b) == <<a[1] + b[1] + ((a[2] + b[2]) \div LimbBase), (a[2] + b[2]) % LimbBase>>
NumSub(a, b) ==
    IF a[2] >= b[2] THEN <<a[1] - b[1], a[2] - b[2]>>
    ELSE <<a[1] - b[1] - 1, a[2] + LimbBase - b[2]>>
NumSucc(a) == NumAdd(a, <<0, 1>>)

----------------------------------------------------------------------------
(* Python string slicing and int(s, 16) *)

\* the value v, computed once, handed to what follows, K: a local variable
Bind(v, K(_)) == CHOOSE r \in {K(x) : x \in {v}} : TRUE

HexChars == <<"0", "1", "2", "3", "4", "5", "6", "7",
              "8", "9", "a", "b", "c", "d", "e", "f">>

IsHexChar(c) == \E i \in 1..Len(HexChars) : HexChars[i] = c
HexVal(c) == (CHOOSE i \in 1..Len(HexChars) : HexChars[i] = c) - 1

\* s[-n:]
PySliceLast(s, n) == IF Len(s) <= n THEN s ELSE SubSeq(s, Len(s) - n + 1, Len(s))
\* s[0:n]
PySliceFirst(s, n) == IF Len(s) <= n THEN s ELSE SubSeq(s, 1, n)

\* the digits int(s, 16) reads: an optional "0x" prefix is skipped
PyIntDigits(s) ==
    IF Len(s) >= 2 /\ s[1] = "0" /\ s[2] = "x" THEN SubSeq(s, 3, Len(s)) ELSE s

\* int(s, 16) raises ValueError unless at least one digit and only hex digits
PyIntRaises(s) ==
    Bind(PyIntDigits(s), LAMBDA ds :
        ds = <<>> \/ \E i \in 1..Len(ds) : ~IsHexChar(ds[i]))

RECURSIVE HexValue(_)
HexValue(ds) ==
    IF ds = <<>> THEN 0
    ELSE Bind(SubSeq(ds, 1, Len(ds) - 1), LAMBDA front :
             HexValue(front) * Len(HexChars) + HexVal(ds[Len(ds)]))

\* the value of int(s, 16) for a string of at most 8 characters
PyInt16(s) ==
    Bind(PyIntDigits(s), LAMBDA ds :
        IF Len(ds) <= 4 THEN <<0, HexValue(ds)>>
        ELSE <<HexValue(SubSeq(ds, 1, Len(ds) - 4)),
               HexValue(SubSeq(ds, Len(ds) - 3, Len(ds)))>>)

----------------------------------------------------------------------------
(* brickdir.py: get_hashrange *)

TrailingHexLen == 16
HalfHexLen == 8

\* run is the outcome (rcode, rout) of g.run of the getfattr pipeline;
\* rout is already stripped of surrounding white space.
get_hashrange(run) ==
    IF run.rcode = 0
    THEN Bind(PySliceLast(run.rout, TrailingHexLen), LAMBDA trailing_hash_hex :
         Bind(PySliceFirst(trailing_hash_hex, HalfHexLen), LAMBDA lowStr :
         Bind(PySliceLast(trailing_hash_hex, HalfHexLen), LAMBDA highStr :
             IF PyIntRaises(lowStr) \/ PyIntRaises(highStr)
             THEN [kind |-> "ValueError", low |-> None, high |-> None]
             ELSE [kind |-> "tuple", low |-> PyInt16(lowStr), high |-> PyInt16(highStr)])))
    ELSE [kind |-> "None", low |-> None, high |-> None]

----------------------------------------------------------------------------
(* brickdir.py: class BrickDir.  An object is a record of its fields; the  *)
(* result of a method or property is [obj, ret, exc, fetches]: the object  *)
(* afterwards, the value returned (None when it raised), the exception     *)
(* raised ("" when none) and the number of remote fetches it executed.     *)

BrickDir(path) ==
    [path |-> path, hashrange |-> None, hashrange_low |-> None, hashrange_high |-> None]

Returns(obj, ret, fetches) == [obj |-> obj, ret |-> ret, exc |-> "", fetches |-> fetches]
Raises(obj, exc, fetches) == [obj |-> obj, ret |-> None, exc |-> exc, fetches |-> fetches]

\* BrickDir_get_hashrange that takes a None from get_hashrange for no range
BrickDir_get_hashrange_silent(self, run) ==
    Bind(get_hashrange(run), LAMBDA r :
        CASE r.kind = "ValueError" -> Raises(self, "ValueError", 1)
          [] r.kind = "None" -> Returns(self, None, 1)
          [] OTHER -> Returns([self EXCEPT !.hashrange = <<r.low, r.high>>,
                                           !.hashrange_low = r.low,
                                           !.hashrange_high = r.high], None, 1))

\* _get_hashrange: a None from get_hashrange is stored and then subscripted
\* (TypeError); a ValueError of int() leaves the fields as they were.
BrickDir_get_hashrange(self, run) ==
    Bind(get_hashrange(run), LAMBDA r :
        CASE r.kind = "ValueError" -> Raises(self, "ValueError", 1)
          [] r.kind = "None" -> Raises([self EXCEPT !.hashrange = None], "TypeError", 1)
          [] OTHER -> Returns([self EXCEPT !.hashrange = <<r.low, r.high>>,
                                           !.hashrange_low = r.low,
                                           !.hashrange_high = r.high], None, 1))

\* BrickDir_hashrange without the test of the cache
BrickDir_hashrange_nocache(self, run) ==
    Bind(BrickDir_get_hashrange(self, run), LAMBDA f :
        IF f.exc # "" THEN f
        ELSE Returns(f.obj, <<f.obj.hashrange_low, f.obj.hashrange_high>>, f.fetches))

BrickDir_hashrange(self, run) ==
    IF self.hashrange = None
    THEN Bind(BrickDir_get_hashrange(self, run), LAMBDA f :
             IF f.exc # "" THEN f
             ELSE Returns(f.obj, <<f.obj.hashrange_low, f.obj.hashrange_high>>, f.fetches))
    ELSE Returns(self, <<self.hashrange_low, self.hashrange_high>>, 0)

\* a second result f of the same method, after a first that executed n fetches
After(n, f) == [f EXCEPT !.fetches = @ + n]

BrickDir_hashrange_low(self, run) ==
    Bind(BrickDir_hashrange(self, run), LAMBDA p :
        IF p.exc # "" THEN p
        ELSE IF p.ret = None \/ p.obj.hashrange_low = None
        THEN Bind(After(p.fetches, BrickDir_get_hashrange(p.obj, run)), LAMBDA f :
                 IF f.exc # "" THEN f ELSE [f EXCEPT !.ret = f.obj.hashrange_low])
        ELSE [p EXCEPT !.ret = p.obj.hashrange_low])

BrickDir_hashrange_high(self, run) ==
    Bind(BrickDir_hashrange(self, run), LAMBDA p :
        IF p.exc # "" THEN p
        ELSE IF p.ret = None \/ p.obj.hashrange_high = None
        THEN Bind(After(p.fetches, BrickDir_get_hashrange(p.obj, run)), LAMBDA f :
                 IF f.exc # "" THEN f ELSE [f EXCEPT !.ret = f.obj.hashrange_high])
        ELSE [p EXCEPT !.ret = p.obj.hashrange_high])

BrickDir_hashrange_contains_hash(self, run, filehash) ==
    Bind(IF self.hashrange = None THEN BrickDir_get_hashrange(self, run)
         ELSE Returns(self, None, 0), LAMBDA f :
        IF f.exc # "" THEN f
        ELSE [f EXCEPT !.ret = NumLe(f.obj.hashrange_low, filehash)
                                 /\ NumLe(filehash, f.obj.hashrange_high)])

BrickDir_has_zero_hashrange(self, run) ==
    Bind(BrickDir_hashrange_low(self, run), LAMBDA l :
        IF l.exc # "" THEN l
        ELSE IF l.ret # Zero32 THEN [l EXCEPT !.ret = FALSE]
        ELSE Bind(After(l.fetches, BrickDir_hashrange_high(l.obj, run)), LAMBDA h :
                 IF h.exc # "" THEN h ELSE [h EXCEPT !.ret = (h.ret = Zero32)]))

\* BrickDir_resync_hashrange that does not reset the fields first
BrickDir_resync_noreset(self, run) ==
    IF self.hashrange = None THEN BrickDir_get_hashrange(self, run)
    ELSE Returns(self, None, 0)

BrickDir_resync_hashrange(self, run) ==
    BrickDir_get_hashrange([self EXCEPT !.hashrange = None,
                                        !.hashrange_low = None,
                                        !.hashrange_high = None], run)

----------------------------------------------------------------------------
(* The hash-range attribute as the cluster writes it: trusted.glusterfs.dht *)
(* in hex is "0x" and four 8-digit words, the last two being low and high.  *)

Hex4(n) ==
    <<HexChars[(n \div 4096) + 1], HexChars[((n \div 256) % 16) + 1],
      HexChars[((n \div 16) % 16) + 1], HexChars[(n % 16) + 1]>>
Hex8(num) == Hex4(num[1]) \o Hex4(num[2])
EncodeRange(low, high) ==
    <<"0", "x">> \o Hex8(<<0, 1>>) \o Hex8(Zero32) \o Hex8(low) \o Hex8(high)

RunOk(rout) == [rcode |-> 0, rout |-> rout]
\* ssh could not run the command: the exit status is not that of the pipeline
RunFailed == [rcode |-> 255, rout |-> <<>>]
\* the attribute is not set: getfattr prints nothing, cut exits 0
RunAbsent == RunOk(<<>>)

----------------------------------------------------------------------------
(* The cluster as the library sees it.  env is a record                    *)
(*   attrs    : directory -> brick -> outcome of fetching its hash range   *)
(*   pathinfo : directory -> sequence of the bricks backing it             *)
(*   exists   : path -> set of bricks on which the path exists             *)
(*   lsfails  : hosts on which the "ls" of a probe cannot be executed      *)
(*   hashfn   : file name -> gf_dm_hashfn of it, a 32-bit value            *)
(* A path is the sequence of its components; a brick directory path        *)
(* "host:/brick/dir" is <<host, dir>>.                                     *)

dirname(fqpath) == SubSeq(fqpath, 1, Len(fqpath) - 1)
basename(fqpath) == fqpath[Len(fqpath)]

\* no effect on the cluster; counts of the remote work done by a call
NoFx == [layouts |-> 0, pathinfos |-> 0, hashes |-> 0, probes |-> <<>>]
FxAdd(a, b) ==
    [layouts |-> a.layouts + b.layouts, pathinfos |-> a.pathinfos + b.pathinfos,
     hashes |-> a.hashes + b.hashes, probes |-> a.probes \o b.probes]

Ret(obj, ret, fx) == [obj |-> obj, ret |-> ret, exc |-> "", fx |-> fx]
Exc(obj, exc, fx) == [obj |-> obj, ret |-> None, exc |-> exc, fx |-> fx]

\* glusterfile.py: calculate_hash; the hash function itself is libglusterfs'
calculate_hash(env, filename) == env.hashfn[filename]

\* the return code of g.run(host, "ls -ld fqpath"): that of ls, or that of
\* the transport when the command could not be executed on host
ls_rcode(env, host, fqpath) ==
    IF host \in env.lsfails THEN 255
    ELSE IF host \in env.exists[fqpath] THEN 0 ELSE 2

\* glusterfile.py: file_exists, "ls -ld" of fqpath on host
file_exists(env, host, fqpath) == ls_rcode(env, host, fqpath) = 0

\* glusterfile.py: move_file, "mv source dest" on host: the return code of mv,
\* which fails when there is no source or source and dest are the same file,
\* and the cluster afterwards
move_file(env, host, source_fqpath, dest_fqpath) ==
    IF env.exists[source_fqpath] # {} /\ source_fqpath # dest_fqpath
    THEN [ret |-> TRUE,
          env |-> [env EXCEPT !.exists[dest_fqpath] = env.exists[source_fqpath],
                              !.exists[source_fqpath] = {}]]
    ELSE [ret |-> FALSE, env |-> env]

\* glusterfile.py: get_pathinfo; the brick directory paths that the regular
\* expression finds in the path-info text, one per brick backing fqpath
get_pathinfo(env, fqpath) ==
    [brickdir_paths |-> [i \in 1..Len(env.pathinfo[fqpath]) |->
                            <<env.pathinfo[fqpath][i], fqpath>>]]

----------------------------------------------------------------------------
(* layout.py: class Layout, from the specification (section 4.3).  A layout *)
(* is built from the path-info of one directory: one BrickDir per brick     *)
(* directory path, each with its hash range resolved when the layout is     *)
(* built; it cannot be built from no bricks or when a range cannot be       *)
(* resolved.                                                                *)

Layout(env, pathinfo) ==
    Bind([i \in 1..Len(pathinfo.brickdir_paths) |->
             BrickDir_hashrange(BrickDir(pathinfo.brickdir_paths[i]),
                                env.attrs[pathinfo.brickdir_paths[i][2]]
                                         [pathinfo.brickdir_paths[i][1]])],
         LAMBDA res :
             IF Len(res) = 0 \/ \E i \in 1..Len(res) : res[i].exc # ""
             THEN [exc |-> "NoSiblingData", obj |-> None]
             ELSE [exc |-> "", obj |-> [brickdirs |-> [i \in 1..Len(res) |-> res[i].obj]]])

\* the <<low, high>> ranges of the assigned bricks (not low = high = 0)
AssignedRanges(layout) ==
    LET idx == {i \in 1..Len(layout.brickdirs) :
                   layout.brickdirs[i].hashrange # <<Zero32, Zero32>>}
    IN  [i \in idx |-> layout.brickdirs[i].hashrange]

\* the assigned ranges sorted by low
SortedRanges(layout) ==
    LET a == AssignedRanges(layout)
        n == Cardinality(DOMAIN a)
    IN  IF n = 0 THEN <<>>
        ELSE LET perm == CHOOSE f \in [1..n -> DOMAIN a] :
                            /\ \A i, k \in 1..n : i # k => f[i] # f[k]
                            /\ \A i \in 1..(n - 1) : NumLe(a[f[i]][1], a[f[i + 1]][1])
             IN  [i \in 1..n |-> a[perm[i]]]

\* gaps in the coverage of [0, 2^32 - 1], as <<first, last>> uncovered hashes
LayoutHoles(layout) ==
    LET s == SortedRanges(layout)
        n == Len(s)
    IN  IF n = 0 THEN {<<Zero32, Max32>>}
        ELSE (IF s[1][1] # Zero32 THEN {<<Zero32, NumSub(s[1][1], <<0, 1>>)>>} ELSE {})
             \cup {<<NumSucc(s[i][2]), NumSub(s[i + 1][1], <<0, 1>>)>> :
                      i \in {k \in 1..(n - 1) : NumLt(NumSucc(s[k][2]), s[k + 1][1])}}
             \cup (IF s[n][2] # Max32 THEN {<<NumSucc(s[n][2]), Max32>>} ELSE {})

\* LayoutOverlaps that misses two ranges sharing one hash
LayoutOverlaps_strict(layout) ==
    LET s == SortedRanges(layout)
    IN  {<<s[i], s[i + 1]>> : i \in {k \in 1..(Len(s) - 1) : NumLt(s[k + 1][1], s[k][2])}}

\* places where a range reaches the next one's low
LayoutOverlaps(layout) ==
    LET s == SortedRanges(layout)
    IN  {<<s[i], s[i + 1]>> : i \in {k \in 1..(Len(s) - 1) : NumLe(s[k + 1][1], s[k][2])}}

Layout_is_complete(layout) == LayoutHoles(layout) = {} /\ LayoutOverlaps(layout) = {}

\* a <<hi, lo>> number divided by a small positive integer
NumDiv(a, n) == <<a[1] \div n, ((a[1] % n) * LimbBase + a[2]) \div n>>

\* the tolerance band is the ideal size plus or minus a fraction of it
BalanceToleranceDivisor == 4

Layout_is_balanced(layout) ==
    LET s == SortedRanges(layout)
        n == Len(s)
    IN  n = 0 \/
        LET ideal == NumDiv(Pow32, n)
            tol == NumDiv(ideal, BalanceToleranceDivisor)
        IN  \A i \in 1..n :
               LET size == NumSucc(NumSub(s[i][2], s[i][1]))
               IN  NumLe(s[i][1], s[i][2])
                   /\ NumLe(NumSub(ideal, tol), size) /\ NumLe(size, NumAdd(ideal, tol))

----------------------------------------------------------------------------
(* glusterfile.py: class GlusterFile (GlusterDir inherits all of this)     *)

GlusterFile(host, fqpath) ==
    [host |-> host, fqpath |-> fqpath, calculated_hash |-> None, parent_dir_layout |-> None,
     previous_fqpath |-> None]

GlusterFile_parent_dir(self) == dirname(self.fqpath)
GlusterFile_basename(self) == basename(self.fqpath)

GlusterFile_parent_dir_pathinfo(self, env) ==
    Ret(self, get_pathinfo(env, GlusterFile_parent_dir(self)), [NoFx EXCEPT !.pathinfos = 1])

GlusterFile_calculated_hash(self, env) ==
    IF self.calculated_hash = None
    THEN Bind(calculate_hash(env, GlusterFile_basename(self)), LAMBDA h :
             Ret([self EXCEPT !.calculated_hash = h], h, [NoFx EXCEPT !.hashes = 1]))
    ELSE Ret(self, self.calculated_hash, NoFx)

GlusterFile_parent_dir_layout(self, env) ==
    IF self.parent_dir_layout = None
    THEN Bind(GlusterFile_parent_dir_pathinfo(self, env), LAMBDA pi :
         Bind(Layout(env, pi.ret), LAMBDA l :
             IF l.exc # "" THEN Exc(self, l.exc, [pi.fx EXCEPT !.layouts = 1])
             ELSE Ret([self EXCEPT !.parent_dir_layout = l.obj], l.obj,
                      [pi.fx EXCEPT !.layouts = 1])))
    ELSE Ret(self, self.parent_dir_layout, NoFx)

\* the run of the getfattr pipeline for a brick directory path
AttrOf(env, path) == env.attrs[path[2]][path[1]]

\* low <= hash <= high
hash_in_range_inclusive(low, hash, high) == NumLe(low, hash) /\ NumLe(hash, high)

\* low < self.calculated_hash < high
hash_in_range(low, hash, high) == NumLt(low, hash) /\ NumLt(hash, high)

\* the loop over the layout's brickdirs, from index i on, in a GlusterFile
\* whose fields are self, with brickpaths collected and work fx done so far
RECURSIVE HashedBricksLoop(_, _, _, _, _, _)
HashedBricksLoop(self, env, brickdirs, i, brickpaths, fx) ==
    IF i > Len(brickdirs) THEN Ret(self, brickpaths, fx)
    ELSE Bind(BrickDir_hashrange_low(brickdirs[i], AttrOf(env, brickdirs[i].path)),
              LAMBDA low :
         IF low.exc # "" THEN Exc(self, low.exc, fx)
         ELSE Bind(BrickDir_hashrange_high(low.obj, AttrOf(env, brickdirs[i].path)),
                   LAMBDA high :
         IF high.exc # "" THEN Exc(self, high.exc, fx)
         ELSE Bind(GlusterFile_calculated_hash(self, env), LAMBDA h :
             HashedBricksLoop(h.obj, env, brickdirs, i + 1,
                              IF hash_in_range(low.ret, h.ret, high.ret)
                              THEN Append(brickpaths, brickdirs[i].path)
                              ELSE brickpaths,
                              FxAdd(fx, h.fx)))))

GlusterFile_hashed_bricks(self, env) ==
    Bind(GlusterFile_parent_dir_layout(self, env), LAMBDA l :
        IF l.exc # "" THEN l
        ELSE HashedBricksLoop(l.obj, env, l.ret.brickdirs, 1, <<>>, l.fx))

\* exists_on_hashed_bricks answering False when hashed_bricks is empty
GlusterFile_exists_on_hashed_bricks_some(self, env) ==
    Bind(GlusterFile_hashed_bricks(self, env), LAMBDA hb :
        IF hb.exc # "" THEN hb
        ELSE Ret(hb.obj,
                 /\ hb.ret # <<>>
                 /\ {i \in 1..Len(hb.ret) : ~file_exists(env, hb.ret[i][1], hb.ret[i][2])} = {},
                 [hb.fx EXCEPT !.probes = hb.ret]))

GlusterFile_exists_on_hashed_bricks(self, env) ==
    Bind(GlusterFile_hashed_bricks(self, env), LAMBDA hb :
        IF hb.exc # "" THEN hb
        ELSE Ret(hb.obj,
                 {i \in 1..Len(hb.ret) : ~file_exists(env, hb.ret[i][1], hb.ret[i][2])} = {},
                 [hb.fx EXCEPT !.probes = hb.ret]))

\* move: the object, the value returned and the cluster afterwards
GlusterFile_move(self, env, dest_fqpath) ==
    Bind(move_file(env, self.host, self.fqpath, dest_fqpath), LAMBDA ret :
        IF ret.ret
        THEN [obj |-> [self EXCEPT !.previous_fqpath = self.fqpath, !.fqpath = dest_fqpath],
              ret |-> TRUE, env |-> ret.env]
        ELSE [obj |-> self, ret |-> FALSE, env |-> ret.env])

----------------------------------------------------------------------------
(* constants.py, from the specification (section 6): the checks to run are *)
(* a bit mask over {completeness, balance, hashed existence}, the entries  *)
(* to check a bit mask over {directories, files}.                          *)

TEST_LAYOUT_IS_COMPLETE == 1
TEST_LAYOUT_IS_BALANCED == 2
TEST_FILE_EXISTS_ON_HASHED_BRICKS == 4
FILETYPE_DIR == 1
FILETYPE_FILE == 2

\* mask & bit, for a bit that is a power of two
BitSet(mask, bit) == (mask \div bit) % 2 = 1

----------------------------------------------------------------------------
(* dht_test_utils.py *)

\* run_layout_tests with the two tests in the other order
run_layout_tests_balance_first(layout, test_type) ==
    IF BitSet(test_type, TEST_LAYOUT_IS_BALANCED) /\ ~Layout_is_balanced(layout)
    THEN "LayoutIsNotBalancedException"
    ELSE IF BitSet(test_type, TEST_LAYOUT_IS_COMPLETE) /\ ~Layout_is_complete(layout)
    THEN "LayoutIsNotCompleteException"
    ELSE ""

\* the exception run_layout_tests raises, "" when it returns True
run_layout_tests(layout, test_type) ==
    IF BitSet(test_type, TEST_LAYOUT_IS_COMPLETE) /\ ~Layout_is_complete(layout)
    THEN "LayoutIsNotCompleteException"
    ELSE IF BitSet(test_type, TEST_LAYOUT_IS_BALANCED) /\ ~Layout_is_balanced(layout)
    THEN "LayoutIsNotBalancedException"
    ELSE ""

run_hashed_bricks_test(gfile, env) ==
    Bind(GlusterFile_exists_on_hashed_bricks(gfile, env), LAMBDA e :
        IF e.exc # "" THEN e
        ELSE IF ~e.ret THEN Exc(e.obj, "FileDoesNotExistOnHashedBricks", e.fx)
        ELSE Ret(e.obj, TRUE, e.fx))

\* The cache lookup of a round of validate_files_in_dir for the entry gfile:
\* on a miss the parent's Layout is constructed, stored and handed to
\* run_layout_tests.  cache maps a parent directory to its Layout, None when
\* it is not a key.  The result: the cache afterwards, the layout in hand,
\* the exception raised, the remote work done, whether it was a hit and
\* whether run_layout_tests was called.
CacheLookup(env, cache, test_type, gfile) ==
    IF cache[GlusterFile_parent_dir(gfile)] # None
    THEN [cache |-> cache, layout |-> cache[GlusterFile_parent_dir(gfile)], exc |-> "",
          fx |-> NoFx, hit |-> TRUE, tested |-> FALSE]
    ELSE Bind(GlusterFile_parent_dir_pathinfo(gfile, env), LAMBDA pi :
         Bind(Layout(env, pi.ret), LAMBDA l :
             IF l.exc # ""
             THEN [cache |-> cache, layout |-> None, exc |-> l.exc,
                   fx |-> [pi.fx EXCEPT !.layouts = 1], hit |-> FALSE, tested |-> FALSE]
             ELSE [cache |-> [cache EXCEPT ![GlusterFile_parent_dir(gfile)] = l.obj],
                   layout |-> l.obj,
                   exc |-> run_layout_tests(l.obj, test_type),
                   fx |-> [pi.fx EXCEPT !.layouts = 1], hit |-> FALSE, tested |-> TRUE]))

\* what a round that does not call run_hashed_bricks_test leaves of it
NotHashed(gfile) == Ret(gfile, None, NoFx)

\* One round of either loop of validate_files_in_dir, for the entry fqpath:
\* the cache lookup, then run_hashed_bricks_test if selected.  The result:
\* the cache afterwards, the exception that ended the round, the remote
\* work done, and a record of what the round did.
VisitEntry(env, cache, test_type, fqpath) ==
    Bind(CacheLookup(env, cache, test_type, GlusterFile("client", fqpath)), LAMBDA m :
    Bind(m.exc = "" /\ BitSet(test_type, TEST_FILE_EXISTS_ON_HASHED_BRICKS), LAMBDA hashed :
    Bind(IF hashed THEN run_hashed_bricks_test(GlusterFile("client", fqpath), env)
         ELSE NotHashed(GlusterFile("client", fqpath)), LAMBDA hb :
        [cache |-> m.cache,
         exc |-> IF m.exc # "" THEN m.exc ELSE hb.exc,
         fx |-> FxAdd(m.fx, hb.fx),
         rec |-> [entry |-> fqpath, hit |-> m.hit, tested |-> m.tested,
                  layout |-> m.layout,
                  hashed |-> hashed,
                  hashLayout |-> hb.obj.parent_dir_layout,
                  hash |-> hb.obj.calculated_hash,
                  probes |-> hb.fx.probes,
                  exc |-> IF m.exc # "" THEN m.exc ELSE hb.exc]])))

----------------------------------------------------------------------------
(* Values the model draws from *)

Half32 == <<(LimbBase \div 2) - 1, LimbBase - 1>>        \* 0x7fffffff
HalfNext32 == <<LimbBase \div 2, 0>>                      \* 0x80000000
Sixteenth32 == <<(LimbBase \div 16) - 1, LimbBase - 1>>  \* 0x0fffffff
SixteenthNext32 == <<LimbBase \div 16, 0>>                \* 0x10000000
Overlap32 == <<36863, LimbBase - 1>>                      \* 0x8fffffff
Gap32 == <<36864, 0>>                                     \* 0x90000000

RangeLower == <<Zero32, Half32>>
RangeUpper == <<HalfNext32, Max32>>
RangeFull == <<Zero32, Max32>>
RangeZero == <<Zero32, Zero32>>
RangeSliver == <<Zero32, Sixteenth32>>
RangeRest == <<SixteenthNext32, Max32>>
RangeLowerWide == <<Zero32, Overlap32>>
RangeUpperShort == <<Gap32, Max32>>

RangeInverted == <<HalfNext32, Half32>>

Ranges == {RangeLower, RangeUpper, RangeFull, RangeZero, RangeSliver, RangeRest,
           RangeLowerWide, RangeUpperShort, RangeInverted}

Encoded(r) == EncodeRange(r[1], r[2])

\* attribute values that are not "0x" followed by four 8-digit hex words
RawShort == <<"0", "x", "0">>
RawFourteen == <<"0", "x">> \o Hex4(1) \o Hex4(2) \o Hex4(3) \o <<"4", "5">>
RawNonHex == <<"0", "x">> \o Hex8(Zero32) \o Hex8(Zero32) \o <<"z", "z">> \o Hex8(Max32)
MalformedRaws == {RawShort, RawFourteen, RawNonHex}

\* the data format of the attribute: "0x", then hex digits only, at least 16
WellFormedRaw(raw) ==
    /\ Len(raw) >= 2 + TrailingHexLen
    /\ raw[1] = "0" /\ raw[2] = "x"
    /\ \A i \in 3..Len(raw) : IsHexChar(raw[i])

Hashes == {Zero32, <<0, 16>>, Half32, HalfNext32, Gap32, Max32}

----------------------------------------------------------------------------
VARIABLES
    brickdir,       \* a BrickDir object in the hands of a caller
    brickRun,       \* what fetching its hash-range attribute yields now
    epochFetches,   \* remote fetches executed since construction / the last resync began
    epochOk,        \* those of them that returned a pair
    last,           \* the last operation on brickdir: [op, arg, ret, truth, exc, fetches, before]
    nOps,           \* operations performed
    env,            \* the cluster: [attrs, pathinfo, exists, hashfn]
    file_type,      \* argument of validate_files_in_dir
    test_type,      \* argument of validate_files_in_dir
    pc,             \* where validate_files_in_dir is: walk, dirs, files, returned, raised
    wi,             \* number of triples taken from os.walk
    j,              \* index into walkies[1] or walkies[2] of the next entry
    layout_cache,   \* parent directory -> Layout, None when not a key
    raised,         \* the exception that ended the invocation, "" when none
    stats,          \* remote work done so far, per parent directory
    log,            \* one record per loop round, in order
    nChanges,       \* metadata changes made by the cluster meanwhile
    conc,           \* concurrent invocations: caller -> [pc, cache, layout, k]
    built,          \* Layout instances constructed by the concurrent invocations
    lay,            \* a Layout object in the hands of a caller, None before it is built
    verdict,        \* what the caller has read of it: [read, is_complete, is_balanced]
    gfile,          \* a GlusterFile object in the hands of a caller
    fileLast,       \* the last operation on gfile: [op, ret, truth, exc]
    nFileOps        \* operations performed on gfile

brickVars == <<brickdir, brickRun, epochFetches, epochOk, last, nOps>>
travVars == <<env, file_type, test_type, pc, wi, j, layout_cache, raised, stats, log,
              nChanges>>

concVars == <<conc, built>>
layVars == <<lay, verdict>>
fileVars == <<gfile, fileLast, nFileOps>>

vars == <<brickdir, brickRun, epochFetches, epochOk, last, nOps,
          env, file_type, test_type, pc, wi, j, layout_cache, raised, stats, log,
          nChanges, conc, built, lay, verdict, gfile, fileLast, nFileOps>>

----------------------------------------------------------------------------
(* The tree that os.walk yields, top down, and the cluster under it *)

Bricks == {"A", "B"}

DirM == <<"m">>
DirD == <<"m", "d">>
FileF == <<"m", "f">>
FileG == <<"m", "d", "g">>

walk == << [dirpath |-> DirM, dirnames |-> <<"d">>, filenames |-> <<"f">>],
           [dirpath |-> DirD, dirnames |-> <<>>, filenames |-> <<"g">>] >>

ParentDirs == {DirM, DirD}
Entries == {DirD, FileF, FileG}

LayoutOf(a, b) == [x \in Bricks |-> IF x = "A" THEN a ELSE b]
RangeRun(r) == RunOk(Encoded(r))

LayoutHalves == LayoutOf(RangeRun(RangeLower), RangeRun(RangeUpper))
LayoutSwapped == LayoutOf(RangeRun(RangeUpper), RangeRun(RangeLower))
LayoutOverlap == LayoutOf(RangeRun(RangeLowerWide), RangeRun(RangeUpper))
LayoutHole == LayoutOf(RangeRun(RangeLower), RangeRun(RangeUpperShort))
LayoutImbalanced == LayoutOf(RangeRun(RangeSliver), RangeRun(RangeRest))
LayoutZeroFull == LayoutOf(RangeRun(RangeZero), RangeRun(RangeFull))
LayoutHoleSliver == LayoutOf(RangeRun(RangeSliver), RangeRun(RangeUpperShort))

LayoutChoices == {LayoutHalves, LayoutSwapped, LayoutOverlap, LayoutHole,
                  LayoutImbalanced, LayoutZeroFull, LayoutHoleSliver}

InsideOverlap32 == <<34816, 0>>                            \* 0x88000000

TravInit ==
    /\ \E am \in LayoutChoices, ad \in {LayoutHalves, LayoutHole},
          em \in {{"A", "B"}}, ed \in {{"A", "B"}, {"B"}},
          ef \in {{"A", "B"}, {"B"}}, eg \in {{"A", "B"}},
          hf \in {<<0, 16>>, Half32, InsideOverlap32},
          hd \in {<<0, 16>>}, hg \in {<<0, 16>>, Gap32},
          lf \in {{}, {"A"}} :
          env = [attrs |-> [p \in ParentDirs |-> IF p = DirM THEN am ELSE ad],
                 pathinfo |-> [p \in ParentDirs |-> <<"A", "B">>],
                 exists |-> [p \in ParentDirs \cup Entries |->
                                CASE p = DirM -> em [] p = DirD -> ed
                                  [] p = FileF -> ef [] OTHER -> eg],
                 lsfails |-> lf,
                 hashfn |-> [n \in {"d", "f", "g"} |->
                                CASE n = "d" -> hd [] n = "f" -> hf [] OTHER -> hg]]
    /\ file_type \in {FILETYPE_DIR, FILETYPE_FILE, FILETYPE_DIR + FILETYPE_FILE}
    /\ test_type \in 0..(TEST_LAYOUT_IS_COMPLETE + TEST_LAYOUT_IS_BALANCED
                            + TEST_FILE_EXISTS_ON_HASHED_BRICKS)
    /\ pc = "walk"
    /\ wi = 0
    /\ j = 1
    /\ layout_cache = [p \in ParentDirs |-> None]
    /\ raised = ""
    /\ stats = [layouts |-> [p \in ParentDirs |-> 0],
                pathinfos |-> [p \in ParentDirs |-> 0],
                layoutTests |-> [p \in ParentDirs |-> 0],
                hashes |-> 0, probes |-> 0]
    /\ log = <<>>
    /\ nChanges = 0

\* the variables of the traversal while only a BrickDir is exercised
TravIdle ==
    /\ env = [attrs |-> [p \in ParentDirs |-> LayoutHalves],
              pathinfo |-> [p \in ParentDirs |-> <<"A", "B">>],
              exists |-> [p \in ParentDirs \cup Entries |-> Bricks],
              lsfails |-> {},
              hashfn |-> [n \in {"d", "f", "g"} |-> <<0, 16>>]]
    /\ file_type = 0
    /\ test_type = 0
    /\ pc = "idle"
    /\ wi = 0
    /\ j = 1
    /\ layout_cache = [p \in ParentDirs |-> None]
    /\ raised = ""
    /\ stats = [layouts |-> [p \in ParentDirs |-> 0],
                pathinfos |-> [p \in ParentDirs |-> 0],
                layoutTests |-> [p \in ParentDirs |-> 0],
                hashes |-> 0, probes |-> 0]
    /\ log = <<>>
    /\ nChanges = 0

\* no concurrent invocations
ConcIdle ==
    /\ conc = <<>>
    /\ built = 0

\* no Layout in the hands of a caller
LayIdle ==
    /\ lay = None
    /\ verdict = [read |-> {}, is_complete |-> FALSE, is_balanced |-> FALSE]

\* no GlusterFile in the hands of a caller
FileIdle ==
    /\ gfile = None
    /\ fileLast = [op |-> "init", ret |-> None, truth |-> FALSE, exc |-> ""]
    /\ nFileOps = 0

\* the BrickDir variables while the traversal runs
BrickIdle ==
    /\ brickdir = BrickDir("A")
    /\ brickRun = RunFailed
    /\ epochFetches = 0
    /\ epochOk = 0
    /\ last = [op |-> "init", arg |-> None, ret |-> None, truth |-> FALSE, exc |-> "",
               fetches |-> 0, before |-> None]
    /\ nOps = 0

MaxOps == 4

BrickRuns ==
    {RunOk(Encoded(r)) : r \in {RangeLower, RangeUpper, RangeZero, RangeInverted}}
        \cup {RunOk(raw) : raw \in MalformedRaws} \cup {RunFailed, RunAbsent}

ReadOps == {"hashrange", "hashrange_low", "hashrange_high",
            "has_zero_hashrange", "hashrange_contains_hash"}

BrickInit ==
    /\ brickdir = BrickDir("A")
    /\ brickRun \in BrickRuns
    /\ epochFetches = 0
    /\ epochOk = 0
    /\ last = [op |-> "init", arg |-> None, ret |-> None, truth |-> FALSE, exc |-> "",
               fetches |-> 0, before |-> None]
    /\ nOps = 0
    /\ TravIdle
    /\ ConcIdle
    /\ LayIdle
    /\ FileIdle

\* the operations that return True or False
TruthOps == {"has_zero_hashrange", "hashrange_contains_hash"}

\* a caller's operation op, called with arg, has produced result res; the
\* value returned is kept in ret, or in truth when it is True or False
BrickStep(op, arg, res, newEpoch) ==
    /\ nOps < MaxOps
    /\ nOps' = nOps + 1
    /\ brickdir' = res.obj
    /\ epochFetches' = (IF newEpoch THEN 0 ELSE epochFetches) + res.fetches
    /\ epochOk' = (IF newEpoch THEN 0 ELSE epochOk)
                    + (IF res.exc = "" THEN res.fetches ELSE res.fetches - 1)
    /\ last' = [op |-> op, arg |-> arg,
                ret |-> IF op \in TruthOps THEN None ELSE res.ret,
                truth |-> IF op \in TruthOps /\ res.exc = "" THEN res.ret ELSE FALSE,
                exc |-> res.exc, fetches |-> res.fetches, before |-> brickdir.hashrange]
    /\ UNCHANGED <<brickRun, travVars, concVars, layVars, fileVars>>

ReadHashrange == BrickStep("hashrange", None, BrickDir_hashrange(brickdir, brickRun), FALSE)
ReadHashrangeLow ==
    BrickStep("hashrange_low", None, BrickDir_hashrange_low(brickdir, brickRun), FALSE)
ReadHashrangeHigh ==
    BrickStep("hashrange_high", None, BrickDir_hashrange_high(brickdir, brickRun), FALSE)
HasZeroHashrange ==
    BrickStep("has_zero_hashrange", None, BrickDir_has_zero_hashrange(brickdir, brickRun), FALSE)
HashrangeContainsHash ==
    \E h \in Hashes :
        BrickStep("hashrange_contains_hash", h,
                  BrickDir_hashrange_contains_hash(brickdir, brickRun, h), FALSE)
ResyncHashrange ==
    BrickStep("resync_hashrange", None, BrickDir_resync_hashrange(brickdir, brickRun), TRUE)

\* the brick's metadata changes on the server, or the server becomes unreachable
BrickMetadataChange ==
    /\ nOps < MaxOps
    /\ \E run \in BrickRuns : run # brickRun /\ brickRun' = run
    /\ nOps' = nOps + 1
    /\ last' = [last EXCEPT !.op = "metadata_change"]
    /\ UNCHANGED <<brickdir, epochFetches, epochOk, travVars, concVars, layVars, fileVars>>

BrickNext ==
    \/ ReadHashrange
    \/ ReadHashrangeLow
    \/ ReadHashrangeHigh
    \/ HasZeroHashrange
    \/ HashrangeContainsHash
    \/ ResyncHashrange
    \/ BrickMetadataChange

SpecBrick == BrickInit /\ [][BrickNext]_vars

----------------------------------------------------------------------------
(* dht_test_utils.py: validate_files_in_dir, one action per loop round *)

\* Round with the exception of a round logged and the loop carried on
Round_keep_going(vo) ==
    LET parent == dirname(vo.rec.entry)
    IN  /\ layout_cache' = vo.cache
        /\ stats' = [layouts |-> [stats.layouts EXCEPT ![parent] = @ + vo.fx.layouts],
                     pathinfos |-> [stats.pathinfos EXCEPT ![parent] = @ + vo.fx.pathinfos],
                     layoutTests |-> [stats.layoutTests EXCEPT
                                         ![parent] = @ + (IF vo.rec.tested THEN 1 ELSE 0)],
                     hashes |-> stats.hashes + vo.fx.hashes,
                     probes |-> stats.probes + Len(vo.fx.probes)]
        /\ log' = Append(log, vo.rec)
        /\ raised' = (IF raised # "" THEN raised ELSE vo.exc)
        /\ pc' = pc
        /\ j' = j + 1
        /\ UNCHANGED <<env, file_type, test_type, wi, nChanges, brickVars, concVars, layVars, fileVars>>

\* account for one round: vo is the result of VisitEntry
Round(vo) ==
    LET parent == dirname(vo.rec.entry)
    IN  /\ layout_cache' = vo.cache
        /\ stats' = [layouts |-> [stats.layouts EXCEPT ![parent] = @ + vo.fx.layouts],
                     pathinfos |-> [stats.pathinfos EXCEPT ![parent] = @ + vo.fx.pathinfos],
                     layoutTests |-> [stats.layoutTests EXCEPT
                                         ![parent] = @ + (IF vo.rec.tested THEN 1 ELSE 0)],
                     hashes |-> stats.hashes + vo.fx.hashes,
                     probes |-> stats.probes + Len(vo.fx.probes)]
        /\ log' = Append(log, vo.rec)
        /\ raised' = vo.exc
        /\ IF vo.exc # "" THEN pc' = "raised" /\ j' = j ELSE pc' = pc /\ j' = j + 1
        /\ UNCHANGED <<env, file_type, test_type, wi, nChanges, brickVars, concVars, layVars, fileVars>>

\* for walkies in os.walk(rootdir): the next triple
WalkNext ==
    /\ pc = "walk"
    /\ wi < Len(walk)
    /\ wi' = wi + 1
    /\ pc' = "dirs"
    /\ j' = 1
    /\ UNCHANGED <<env, file_type, test_type, layout_cache, raised, stats, log,
                   nChanges, brickVars, concVars, layVars, fileVars>>

\* ReturnTrue that does not wait for the end of the walk
ReturnTrue_early ==
    /\ pc = "walk"
    /\ wi >= 1
    /\ pc' = "returned"
    /\ UNCHANGED <<env, file_type, test_type, wi, j, layout_cache, raised, stats, log,
                   nChanges, brickVars, concVars, layVars, fileVars>>

\* the walk is exhausted: return True
ReturnTrue ==
    /\ pc = "walk"
    /\ wi = Len(walk)
    /\ pc' = "returned"
    /\ UNCHANGED <<env, file_type, test_type, wi, j, layout_cache, raised, stats, log,
                   nChanges, brickVars, concVars, layVars, fileVars>>

\* for testdir in walkies[1]
CheckDir ==
    /\ pc = "dirs"
    /\ BitSet(file_type, FILETYPE_DIR)
    /\ j <= Len(walk[wi].dirnames)
    /\ \E vo \in {VisitEntry(env, layout_cache, test_type,
                              Append(walk[wi].dirpath, walk[wi].dirnames[j]))} :
          Round(vo)

\* the directories are done, or not selected
EndDirs ==
    /\ pc = "dirs"
    /\ ~(BitSet(file_type, FILETYPE_DIR) /\ j <= Len(walk[wi].dirnames))
    /\ pc' = "files"
    /\ j' = 1
    /\ UNCHANGED <<env, file_type, test_type, wi, layout_cache, raised, stats, log,
                   nChanges, brickVars, concVars, layVars, fileVars>>

\* for file in walkies[2]
CheckFile ==
    /\ pc = "files"
    /\ BitSet(file_type, FILETYPE_FILE)
    /\ j <= Len(walk[wi].filenames)
    /\ \E vo \in {VisitEntry(env, layout_cache, test_type,
                              Append(walk[wi].dirpath, walk[wi].filenames[j]))} :
          Round(vo)

\* the files are done, or not selected
EndFiles ==
    /\ pc = "files"
    /\ ~(BitSet(file_type, FILETYPE_FILE) /\ j <= Len(walk[wi].filenames))
    /\ pc' = "walk"
    /\ j' = 1
    /\ UNCHANGED <<env, file_type, test_type, wi, layout_cache, raised, stats, log,
                   nChanges, brickVars, concVars, layVars, fileVars>>

Init == TravInit /\ BrickIdle /\ ConcIdle /\ LayIdle /\ FileIdle

Next ==
    \/ WalkNext
    \/ ReturnTrue
    \/ CheckDir
    \/ EndDirs
    \/ CheckFile
    \/ EndFiles

Spec == Init /\ [][Next]_vars

\* the invocations on a cluster where only the layout of the root and the
\* bricks holding its subdirectory vary
LiveInit ==
    /\ Init
    /\ env.attrs[DirD] = LayoutHalves
    /\ env.exists[FileF] = Bricks
    /\ env.hashfn["f"] = <<0, 16>>
    /\ env.hashfn["g"] = <<0, 16>>
    /\ env.lsfails = {}

\* the invocation runs on its thread until it returns or raises
SpecLive == LiveInit /\ [][Next]_vars /\ WF_vars(Next)

----------------------------------------------------------------------------
(* The same traversal while the cluster rewrites the hash ranges of a      *)
(* directory (a rebalance or fix-layout running meanwhile).                *)

MaxChanges == 1

MetadataChange ==
    /\ pc \in {"walk", "dirs", "files"}
    /\ nChanges < MaxChanges
    /\ \E c \in {LayoutHalves, LayoutSwapped, LayoutHole} :
          /\ c # env.attrs[DirM]
          /\ env' = [env EXCEPT !.attrs[DirM] = c]
    /\ nChanges' = nChanges + 1
    /\ UNCHANGED <<file_type, test_type, pc, wi, j, layout_cache, raised, stats, log,
                   brickVars, concVars, layVars, fileVars>>

ChangingInit ==
    /\ Init
    /\ env.attrs[DirD] = LayoutHalves
    /\ \A p \in ParentDirs \cup Entries : env.exists[p] = Bricks
    /\ env.hashfn["g"] = <<0, 16>>
    /\ file_type = FILETYPE_DIR + FILETYPE_FILE
    /\ BitSet(test_type, TEST_FILE_EXISTS_ON_HASHED_BRICKS)

ChangingNext == Next \/ MetadataChange

SpecChanging == ChangingInit /\ [][ChangingNext]_vars

----------------------------------------------------------------------------
(* Concurrent invocations of validate_files_in_dir on the same tree, each  *)
(* a thread of the test driver, interleaved at the statements of the cache *)
(* lookup for the entries of one parent directory.  layout_cache is a      *)
(* local of the invocation.  A Layout instance is named by its number.     *)

NCallers == 3
Callers == 1..NCallers

\* the entries of the parent directory that each caller visits
NSiblings == Len(walk[1].dirnames) + Len(walk[1].filenames)

ConcInit ==
    /\ conc = [c \in Callers |-> [pc |-> "start", cache |-> None, layout |-> None, k |-> 1]]
    /\ built = 0
    /\ TravIdle
    /\ BrickIdle
    /\ LayIdle
    /\ FileIdle

\* layout_cache = {}
ConcStart(c) ==
    /\ conc[c].pc = "start"
    /\ conc' = [conc EXCEPT ![c].pc = "lookup", ![c].cache = None]
    /\ UNCHANGED <<built, travVars, brickVars, layVars, fileVars>>

\* if parent_dir in layout_cache: layout = layout_cache[parent_dir]
ConcLookup(c) ==
    /\ conc[c].pc = "lookup"
    /\ IF conc[c].cache # None
       THEN conc' = [conc EXCEPT ![c].layout = conc[c].cache,
                                 ![c].k = @ + 1,
                                 ![c].pc = IF conc[c].k < NSiblings THEN "lookup" ELSE "done"]
       ELSE conc' = [conc EXCEPT ![c].pc = "construct"]
    /\ UNCHANGED <<built, travVars, brickVars, layVars, fileVars>>

\* else: layout = Layout(parent_dir_pathinfo)
ConcConstruct(c) ==
    /\ conc[c].pc = "construct"
    /\ built' = built + 1
    /\ conc' = [conc EXCEPT ![c].layout = <<built + 1>>, ![c].pc = "store"]
    /\ UNCHANGED <<travVars, brickVars, layVars, fileVars>>

\* layout_cache[parent_dir] = layout
ConcStore(c) ==
    /\ conc[c].pc = "store"
    /\ conc' = [conc EXCEPT ![c].cache = conc[c].layout, ![c].pc = "tests"]
    /\ UNCHANGED <<built, travVars, brickVars, layVars, fileVars>>

\* run_layout_tests(parent_dir, layout, test_type), of a sound layout
ConcTests(c) ==
    /\ conc[c].pc = "tests"
    /\ conc' = [conc EXCEPT ![c].k = @ + 1,
                            ![c].pc = IF conc[c].k < NSiblings THEN "lookup" ELSE "done"]
    /\ UNCHANGED <<built, travVars, brickVars, layVars, fileVars>>

ConcNext ==
    \E c \in Callers :
        \/ ConcStart(c)
        \/ ConcLookup(c)
        \/ ConcConstruct(c)
        \/ ConcStore(c)
        \/ ConcTests(c)

SpecConc == ConcInit /\ [][ConcNext]_vars

----------------------------------------------------------------------------
(* A Layout built from the three bricks of one directory and read by its   *)
(* caller, for every choice of the bricks' ranges.                         *)

\* the traversal variables, but env, while no traversal runs
TravQuiet ==
    /\ file_type = 0
    /\ test_type = 0
    /\ pc = "idle"
    /\ wi = 0
    /\ j = 1
    /\ layout_cache = [p \in ParentDirs |-> None]
    /\ raised = ""
    /\ stats = [layouts |-> [p \in ParentDirs |-> 0],
                pathinfos |-> [p \in ParentDirs |-> 0],
                layoutTests |-> [p \in ParentDirs |-> 0],
                hashes |-> 0, probes |-> 0]
    /\ log = <<>>
    /\ nChanges = 0

Siblings == <<"A", "B", "C">>

RangeMid == <<SixteenthNext32, Half32>>
RangeUpperTouch == <<Half32, Max32>>
RangePoint == <<HalfNext32, HalfNext32>>

SiblingRanges == {RangeLower, RangeUpper, RangeFull, RangeZero, RangeSliver, RangeMid,
                  RangeLowerWide, RangeUpperShort, RangeUpperTouch, RangePoint}

LayoutInit ==
    /\ \E ra \in SiblingRanges, rb \in SiblingRanges, rc \in SiblingRanges :
          env = [attrs |-> [p \in ParentDirs |->
                              [x \in {"A", "B", "C"} |->
                                  RangeRun(CASE x = "A" -> ra [] x = "B" -> rb
                                             [] OTHER -> rc)]],
                 pathinfo |-> [p \in ParentDirs |-> Siblings],
                 exists |-> [p \in ParentDirs \cup Entries |-> {"A", "B", "C"}],
                 lsfails |-> {},
                 hashfn |-> [n \in {"d", "f", "g"} |-> <<0, 16>>]]
    /\ TravQuiet
    /\ LayIdle
    /\ BrickIdle
    /\ ConcIdle
    /\ FileIdle

\* layout = Layout(pathinfo) of the directory
ConstructLayout ==
    /\ lay = None
    /\ lay' = Layout(env, get_pathinfo(env, DirM)).obj
    /\ UNCHANGED <<verdict, travVars, brickVars, concVars, fileVars>>

\* layout.is_complete
ReadIsComplete ==
    /\ lay # None
    /\ "is_complete" \notin verdict.read
    /\ verdict' = [verdict EXCEPT !.read = @ \cup {"is_complete"},
                                  !.is_complete = Layout_is_complete(lay)]
    /\ UNCHANGED <<lay, travVars, brickVars, concVars, fileVars>>

\* layout.is_balanced
ReadIsBalanced ==
    /\ lay # None
    /\ "is_balanced" \notin verdict.read
    /\ verdict' = [verdict EXCEPT !.read = @ \cup {"is_balanced"},
                                  !.is_balanced = Layout_is_balanced(lay)]
    /\ UNCHANGED <<lay, travVars, brickVars, concVars, fileVars>>

LayoutNext ==
    \/ ConstructLayout
    \/ ReadIsComplete
    \/ ReadIsBalanced

SpecLayout == LayoutInit /\ [][LayoutNext]_vars

----------------------------------------------------------------------------
(* A GlusterFile in the hands of a test: reads of calculated_hash and of    *)
(* hashed_bricks, and moves of the file within the volume.                  *)

MaxFileOps == 4

FilePaths == {<<"m", "f">>, <<"m", "g">>, <<"m", "d", "f">>, <<"m", "d", "g">>}

FileInit ==
    /\ \E start \in {<<"m", "f">>, <<"m", "d", "g">>},
          hf \in {<<0, 16>>, Half32}, hg \in {<<0, 16>>, Gap32} :
          /\ env = [attrs |-> [p \in ParentDirs |->
                                  IF p = DirM THEN LayoutHalves ELSE LayoutSwapped],
                    pathinfo |-> [p \in ParentDirs |-> <<"A", "B">>],
                    exists |-> [p \in ParentDirs \cup FilePaths |->
                                   IF p \in ParentDirs \/ p = start THEN Bricks ELSE {}],
                    lsfails |-> {},
                    hashfn |-> [n \in {"d", "f", "g"} |->
                                   CASE n = "f" -> hf [] n = "g" -> hg [] OTHER -> <<0, 16>>]]
          /\ gfile = GlusterFile("client", start)
    /\ fileLast = [op |-> "init", ret |-> None, truth |-> FALSE, exc |-> ""]
    /\ nFileOps = 0
    /\ TravQuiet
    /\ BrickIdle
    /\ ConcIdle
    /\ LayIdle

\* gfile.calculated_hash
ReadCalculatedHash ==
    /\ nFileOps < MaxFileOps
    /\ \E r \in {GlusterFile_calculated_hash(gfile, env)} :
          /\ gfile' = r.obj
          /\ fileLast' = [op |-> "calculated_hash", ret |-> r.ret, truth |-> FALSE,
                          exc |-> r.exc]
    /\ nFileOps' = nFileOps + 1
    /\ UNCHANGED <<travVars, brickVars, concVars, layVars>>

\* gfile.hashed_bricks
ReadHashedBricks ==
    /\ nFileOps < MaxFileOps
    /\ \E r \in {GlusterFile_hashed_bricks(gfile, env)} :
          /\ gfile' = r.obj
          /\ fileLast' = [op |-> "hashed_bricks", ret |-> r.ret, truth |-> FALSE,
                          exc |-> r.exc]
    /\ nFileOps' = nFileOps + 1
    /\ UNCHANGED <<travVars, brickVars, concVars, layVars>>

\* gfile.move(dest_fqpath)
MoveFile ==
    /\ nFileOps < MaxFileOps
    /\ \E dest_fqpath \in FilePaths :
       \E r \in {GlusterFile_move(gfile, env, dest_fqpath)} :
          /\ gfile' = r.obj
          /\ env' = r.env
          /\ fileLast' = [op |-> "move", ret |-> None, truth |-> r.ret, exc |-> ""]
    /\ nFileOps' = nFileOps + 1
    /\ UNCHANGED <<file_type, test_type, pc, wi, j, layout_cache, raised, stats, log,
                   nChanges, brickVars, concVars, layVars>>

FileNext ==
    \/ ReadCalculatedHash
    \/ ReadHashedBricks
    \/ MoveFile

SpecFile == FileInit /\ [][FileNext]_vars

----------------------------------------------------------------------------
(* Claims about BrickDir, checked under SpecBrick *)

\* the last step was an operation of the caller that executed a remote fetch
Fetched == last.op \notin {"init", "metadata_change"} /\ last.fetches > 0

\* the value a read returns when the cached tuple is pair
ReadOf(op, pair) ==
    CASE op = "hashrange" -> pair
      [] op = "hashrange_low" -> pair[1]
      [] op = "hashrange_high" -> pair[2]
      [] OTHER -> None

\* C6 as stated: at most one remote fetch is executed between construction
\* (or a resync) and the next resync, whatever the reads.
C6_FetchAtMostOnce == epochFetches <= 1

\* C6 amended: at most one fetch per epoch returns a pair; once the brick is
\* resolved a read executes no fetch, leaves the cache as it was and returns
\* the cached low and high, whatever the brick's metadata is now.
C6_OneSuccessfulFetch ==
    /\ epochOk <= 1
    /\ (last.op \in ReadOps /\ last.before # None) =>
          /\ last.fetches = 0
          /\ last.exc = ""
          /\ brickdir.hashrange = last.before
          /\ last.op \in {"hashrange", "hashrange_low", "hashrange_high"} =>
                last.ret = ReadOf(last.op, last.before)

\* C6 witness: a read of a resolved brick whose metadata no longer is the
\* cached pair.
C6_Witness ==
    /\ last.op \in {"hashrange", "hashrange_low", "hashrange_high"}
    /\ last.before # None
    /\ brickRun # RunOk(Encoded(last.before))
    /\ epochOk = 1

\* C7: a resync that returns has executed exactly one fetch and the cached
\* range, low and high are the range the brick's attribute encodes now.
C7_ResyncRefetches ==
    (last.op = "resync_hashrange" /\ last.exc = "") =>
        /\ last.fetches = 1
        /\ epochFetches = 1
        /\ \A r \in Ranges :
              brickRun = RunOk(Encoded(r)) =>
                  /\ brickdir.hashrange = r
                  /\ brickdir.hashrange_low = r[1]
                  /\ brickdir.hashrange_high = r[2]

\* C7 witness: a resync replaced a cached range by a different one.
C7_Witness ==
    /\ last.op = "resync_hashrange"
    /\ last.exc = ""
    /\ last.before # None
    /\ brickdir.hashrange # last.before
    /\ \E r \in Ranges : brickRun = RunOk(Encoded(r))

\* C8: a fetch of an attribute value that is not well formed (fewer than 16
\* trailing hex characters, or other than hex content) ends in an error and
\* leaves the brick unresolved.
C8_MalformedIsError ==
    (Fetched /\ brickRun.rcode = 0 /\ ~WellFormedRaw(brickRun.rout)) =>
        (last.exc # "" /\ brickdir.hashrange = None)

\* C9: a fetch whose command failed or whose attribute is absent ends in an
\* error, and leaves every cache field unset; a read of an unresolved brick
\* executes the fetch.
C9_UnreadableIsError ==
    /\ (Fetched /\ brickRun \in {RunFailed, RunAbsent}) =>
          (last.exc # "" /\ brickdir = BrickDir(brickdir.path))
    /\ (last.op \in ReadOps /\ last.before = None) => last.fetches >= 1

\* C9 witness: after a failed fetch a later read has fetched again, and failed.
C9_Witness ==
    /\ last.op \in ReadOps
    /\ last.exc # ""
    /\ epochFetches >= 2
    /\ epochOk = 0
    /\ brickRun \in {RunFailed, RunAbsent}

\* C14: a resolved BrickDir has hashrange_low <= hashrange_high, whatever
\* the attribute value fetched and whatever the reads and resyncs so far.
C14_LowLeHigh ==
    brickdir.hashrange # None =>
        /\ NumLe(brickdir.hashrange_low, brickdir.hashrange_high)
        /\ NumLe(brickdir.hashrange[1], brickdir.hashrange[2])

\* C18: for a resolved brick and a hash h, hashrange_contains_hash(h) is True
\* exactly when the comparison of hashed_bricks lists the brick for h.
C18_OwnershipPredicatesAgree ==
    (last.op = "hashrange_contains_hash" /\ last.exc = "") =>
        (last.truth <=> hash_in_range(brickdir.hashrange_low, last.arg,
                                      brickdir.hashrange_high))

----------------------------------------------------------------------------
(* Claims about the traversal, checked under Spec and SpecChanging *)

\* the bricks of a layout whose range strictly contains hash h
StrictOwners(layout, h) ==
    {layout.brickdirs[n].path[1] :
        n \in {k \in 1..Len(layout.brickdirs) :
                  /\ NumLt(layout.brickdirs[k].hashrange[1], h)
                  /\ NumLt(h, layout.brickdirs[k].hashrange[2])}}

\* the rounds in which hashed_bricks was computed
HashedRounds == {i \in 1..Len(log) : log[i].hashed /\ log[i].hashLayout # None}

\* C1: with hashed-existence checking enabled, a round fails with
\* FileDoesNotExistOnHashedBricks whenever its entry is absent on a brick
\* that owns the entry's hash.
C1_AbsentOnOwnerFails ==
    \A i \in HashedRounds :
        (\E b \in StrictOwners(log[i].hashLayout, log[i].hash) :
            b \notin env.exists[log[i].entry])
        => log[i].exc = "FileDoesNotExistOnHashedBricks"

\* C2: hashed_bricks lists, once each, exactly the bricks whose range has
\* low < h < high: one when h is inside one range, each when ranges overlap
\* at h, none when h is a bound of a range and inside no other.
C2_HashedBricksStrict ==
    \A i \in HashedRounds :
        LET owners == StrictOwners(log[i].hashLayout, log[i].hash)
        IN  /\ {log[i].probes[k][1] : k \in 1..Len(log[i].probes)} = owners
            /\ Len(log[i].probes) = Cardinality(owners)
            /\ \A k \in 1..Len(log[i].probes) :
                  log[i].probes[k][2] = dirname(log[i].entry)

\* C2 witness: in one traversal a hash inside two overlapping ranges got both
\* bricks, a hash inside one range got one, and a hash equal to the low
\* bound of a range got none.
C2_Witness ==
    /\ \E i \in HashedRounds : Len(log[i].probes) = 2
    /\ \E i \in HashedRounds : Len(log[i].probes) = 1
    /\ \E i \in HashedRounds :
          /\ log[i].probes = <<>>
          /\ \E n \in 1..Len(log[i].hashLayout.brickdirs) :
                log[i].hashLayout.brickdirs[n].hashrange[1] = log[i].hash

\* C3: within one invocation a Layout is constructed, and the path-info
\* fetched, at most once per parent directory.
C3_OneLayoutPerParent ==
    \A p \in ParentDirs : stats.layouts[p] <= 1 /\ stats.pathinfos[p] <= 1

\* C4: the layout that resolves an entry's owners is the snapshot of its
\* parent that the layout tests validated and the cache holds.
C4_OwnersFromValidatedSnapshot ==
    \A i \in HashedRounds : log[i].hashLayout = log[i].layout

\* C10: on the first visit of a parent, run_layout_tests raises
\* LayoutIsNotCompleteException if the completeness bit is set and the layout
\* is not complete; otherwise LayoutIsNotBalancedException if the balance bit
\* is set and the layout is not balanced; otherwise neither. A later visit
\* raises neither.
C10_LayoutTestsByBit ==
    \A i \in 1..Len(log) :
        LET complete == BitSet(test_type, TEST_LAYOUT_IS_COMPLETE)
            balance == BitSet(test_type, TEST_LAYOUT_IS_BALANCED)
        IN  IF log[i].tested /\ complete /\ ~Layout_is_complete(log[i].layout)
            THEN log[i].exc = "LayoutIsNotCompleteException"
            ELSE IF log[i].tested /\ balance /\ ~Layout_is_balanced(log[i].layout)
            THEN log[i].exc = "LayoutIsNotBalancedException"
            ELSE log[i].exc \notin {"LayoutIsNotCompleteException",
                                    "LayoutIsNotBalancedException"}

\* C10 witness: both bits set and a layout neither complete nor balanced:
\* the traversal ended with LayoutIsNotCompleteException.
C10_Witness ==
    /\ pc = "raised"
    /\ raised = "LayoutIsNotCompleteException"
    /\ BitSet(test_type, TEST_LAYOUT_IS_BALANCED)
    /\ ~Layout_is_balanced(log[Len(log)].layout)
    /\ ~Layout_is_complete(log[Len(log)].layout)

\* the entries of one triple that file_type selects, directories first
SelectedOf(t) ==
    (IF BitSet(file_type, FILETYPE_DIR)
     THEN [k \in 1..Len(t.dirnames) |-> Append(t.dirpath, t.dirnames[k])] ELSE <<>>)
    \o (IF BitSet(file_type, FILETYPE_FILE)
        THEN [k \in 1..Len(t.filenames) |-> Append(t.dirpath, t.filenames[k])] ELSE <<>>)

\* the selected entries of the whole walk, in the order of the walk
TraversalOrder == SelectedOf(walk[1]) \o SelectedOf(walk[2])

LayoutExceptions == {"LayoutIsNotCompleteException", "LayoutIsNotBalancedException"}

\* C11: validate_files_in_dir is fail-fast.  The rounds are the selected
\* entries in the order of the walk (per triple directories before files);
\* only the last round can have failed, and its failure is the one surfaced;
\* a round that failed the layout tests computed no hash and probed nothing;
\* and once the failure is raised no layout is constructed, no hash computed
\* and no probe made any more.
C11_FailFast ==
    /\ [](/\ Len(log) <= Len(TraversalOrder)
          /\ \A i \in 1..Len(log) :
                /\ log[i].entry = TraversalOrder[i]
                /\ log[i].exc # "" =>
                      (i = Len(log) /\ pc = "raised" /\ raised = log[i].exc)
                /\ log[i].exc \in LayoutExceptions =>
                      (~log[i].hashed /\ log[i].hash = None /\ log[i].probes = <<>>)
          /\ pc = "raised" => (Len(log) > 0 /\ raised # "" /\ log[Len(log)].exc = raised))
    /\ [][pc = "raised" => UNCHANGED <<pc, raised, stats, log, layout_cache>>]_vars

\* C11 witness: the layout tests of the first round failed with the hashed
\* test selected and selected entries still to come.
C11_Witness ==
    /\ pc = "raised"
    /\ raised \in LayoutExceptions
    /\ BitSet(test_type, TEST_FILE_EXISTS_ON_HASHED_BRICKS)
    /\ Len(log) < Len(TraversalOrder)
    /\ stats.hashes = 0
    /\ stats.probes = 0

\* C12: an existence probe that could not be executed is surfaced as a
\* failure of its own kind: the round of an entry with such a probe ends in
\* an exception, and not in FileDoesNotExistOnHashedBricks.
C12_ProbeFailureSurfaced ==
    \A i \in HashedRounds :
        (\E k \in 1..Len(log[i].probes) : log[i].probes[k][1] \in env.lsfails)
        => log[i].exc \notin {"", "FileDoesNotExistOnHashedBricks"}

\* the range that the attribute of sibling brick x encodes
RangeOfSibling(x) ==
    CHOOSE r \in SiblingRanges : env.attrs[DirM][x] = RangeRun(r)

\* the sibling bricks that are assigned a range
AssignedSiblings == {x \in {"A", "B", "C"} : RangeOfSibling(x) # RangeZero}

\* the assigned ranges can be put in an order, necessarily that of their
\* lows, in which the first starts at 0, each ends right before the next
\* starts, and the last ends at 2^32 - 1
Tiles ==
    LET n == Cardinality(AssignedSiblings)
    IN  /\ n > 0
        /\ \E f \in [1..n -> AssignedSiblings] :
              /\ \A i, k \in 1..n : i # k => f[i] # f[k]
              /\ RangeOfSibling(f[1])[1] = Zero32
              /\ \A i \in 1..(n - 1) :
                    NumSucc(RangeOfSibling(f[i])[2]) = RangeOfSibling(f[i + 1])[1]
              /\ RangeOfSibling(f[n])[2] = Max32

\* two assigned ranges have a hash in common
SomeIntersect ==
    \E x, y \in AssignedSiblings :
        /\ x # y
        /\ NumLe(RangeOfSibling(x)[1], RangeOfSibling(y)[2])
        /\ NumLe(RangeOfSibling(y)[1], RangeOfSibling(x)[2])

\* a hash that is the bound of some range, or next to it, is in no assigned
\* range (every gap has such a hash at its beginning)
SomeGap ==
    \E h \in {Zero32} \cup {NumSucc(RangeOfSibling(x)[2]) :
                                x \in {y \in AssignedSiblings : RangeOfSibling(y)[2] # Max32}} :
        \A x \in AssignedSiblings :
            ~(NumLe(RangeOfSibling(x)[1], h) /\ NumLe(h, RangeOfSibling(x)[2]))

RECURSIVE SumOfSizes(_)
SumOfSizes(S) ==
    IF S = {} THEN Zero32
    ELSE LET x == CHOOSE y \in S : TRUE
         IN  NumAdd(NumSucc(NumSub(RangeOfSibling(x)[2], RangeOfSibling(x)[1])),
                    SumOfSizes(S \ {x}))

\* C13: is_complete is true iff the assigned ranges, sorted by low, tile
\* [0, 2^32 - 1] exactly; it is false whenever a gap is left or two ranges
\* intersect; and whenever it is true the sizes high - low + 1 of the
\* assigned ranges add up to 2^32.
C13_CompleteIffTiles ==
    "is_complete" \in verdict.read =>
        /\ verdict.is_complete <=> Tiles
        /\ (SomeGap \/ SomeIntersect) => ~verdict.is_complete
        /\ verdict.is_complete => SumOfSizes(AssignedSiblings) = Pow32

\* C13 witness: three assigned ranges found complete.
C13_Witness ==
    /\ "is_complete" \in verdict.read
    /\ verdict.is_complete
    /\ Cardinality(AssignedSiblings) = 3

\* the layout tests that test_type selects pass for the layout of parent p
LayoutTestsPass(p) ==
    LET l == Layout(env, get_pathinfo(env, p))
    IN  /\ l.exc = ""
        /\ BitSet(test_type, TEST_LAYOUT_IS_COMPLETE) => Layout_is_complete(l.obj)
        /\ BitSet(test_type, TEST_LAYOUT_IS_BALANCED) => Layout_is_balanced(l.obj)

\* a step takes no triple or the next one of the walk
TakesNextTriple == wi' = wi \/ (wi' = wi + 1 /\ wi' <= Len(walk))

\* an invocation that has returned or raised does nothing more
StaysEnded == (pc \in {"returned", "raised"}) => UNCHANGED vars

\* C15: every invocation on the finite walk ends, returned or raised.  It
\* has returned only with the walk exhausted, every selected entry visited
\* once in order, no round failed, the selected layout tests passing for
\* every parent of a selected entry and every probe made answered "exists";
\* it has raised with exactly one failed round; and the triples are taken
\* one at a time, never one twice.
C15_Terminates ==
    /\ <>(pc \in {"returned", "raised"})
    /\ [](pc = "returned" =>
            /\ wi = Len(walk)
            /\ raised = ""
            /\ Len(log) = Len(TraversalOrder)
            /\ \A i \in 1..Len(log) :
                  /\ log[i].entry = TraversalOrder[i]
                  /\ log[i].exc = ""
                  /\ LayoutTestsPass(dirname(log[i].entry))
                  /\ \A k \in 1..Len(log[i].probes) :
                        ls_rcode(env, log[i].probes[k][1], log[i].probes[k][2]) = 0)
    /\ [](pc = "raised" =>
            /\ raised # ""
            /\ Cardinality({i \in 1..Len(log) : log[i].exc # ""}) = 1)
    /\ [][TakesNextTriple]_vars
    /\ [][StaysEnded]_vars

\* C15 witness: an invocation with every check and every entry selected has
\* returned True after three rounds.
C15_Witness ==
    /\ pc = "returned"
    /\ Len(log) = 3
    /\ test_type = TEST_LAYOUT_IS_COMPLETE + TEST_LAYOUT_IS_BALANCED
                     + TEST_FILE_EXISTS_ON_HASHED_BRICKS
    /\ \E i \in 1..Len(log) : log[i].probes # <<>>

\* C16: a read of calculated_hash returns the hash of the basename of the
\* file's current fqpath, and a read of hashed_bricks the bricks of the
\* current parent directory whose range strictly contains that hash,
\* whatever reads and successful moves came before.
C16_HashOfCurrentName ==
    /\ fileLast.op = "calculated_hash" =>
          fileLast.ret = calculate_hash(env, basename(gfile.fqpath))
    /\ (fileLast.op = "hashed_bricks" /\ fileLast.exc = "") =>
          {fileLast.ret[k] : k \in 1..Len(fileLast.ret)}
              = {<<b, dirname(gfile.fqpath)>> :
                    b \in StrictOwners(Layout(env, get_pathinfo(env, dirname(gfile.fqpath))).obj,
                                       calculate_hash(env, basename(gfile.fqpath)))}

\* C17: a round of the hashed-existence test raises
\* FileDoesNotExistOnHashedBricks exactly when the owner set of the entry's
\* hash is non-empty and the existence probe on at least one owner fails;
\* with an empty owner set the round passes and no probe is made.
C17_RaisesIffOwnerProbeFails ==
    \A i \in HashedRounds :
        LET owners == StrictOwners(log[i].hashLayout, log[i].hash)
        IN  /\ (log[i].exc = "FileDoesNotExistOnHashedBricks") <=>
                  /\ owners # {}
                  /\ \E b \in owners : ~file_exists(env, b, dirname(log[i].entry))
            /\ owners = {} => (log[i].probes = <<>> /\ log[i].exc = "")
            /\ \A k \in 1..Len(log[i].probes) : log[i].probes[k][1] \in owners

\* C17 witness: one traversal had a round whose hash is the bound of a range
\* and has no owner, which passed without a probe, a round that raised on a
\* failed probe, and a round whose owners all answered.
C17_Witness ==
    /\ \E i \in HashedRounds :
          /\ StrictOwners(log[i].hashLayout, log[i].hash) = {}
          /\ \E n \in 1..Len(log[i].hashLayout.brickdirs) :
                log[i].hash \in {log[i].hashLayout.brickdirs[n].hashrange[1],
                                 log[i].hashLayout.brickdirs[n].hashrange[2]}
          /\ log[i].probes = <<>>
          /\ log[i].exc = ""
    /\ \E i \in HashedRounds :
          /\ log[i].exc = "FileDoesNotExistOnHashedBricks"
          /\ log[i].probes # <<>>
    /\ \E i \in HashedRounds :
          /\ log[i].probes # <<>>
          /\ log[i].exc = ""

\* C5: when the callers have made their first visit of the parent
\* concurrently, one Layout has been constructed and every caller holds it.
C5_SingleConstruction ==
    (\A c \in Callers : conc[c].layout # None) =>
        /\ built = 1
        /\ \A c1, c2 \in Callers : conc[c1].layout = conc[c2].layout

====
